---- MODULE Spec2Model ----
(***************************************************************************)
(* A model of dw::Delegate (src/Delegate.h): the plain registry            *)
(* SimpleDelegate, the capturing registry DelegateBase with its two        *)
(* parallel vectors, subscribers and parameters, and the invocation        *)
(* operators of Delegate, RetDelegate, MemberDelegate and                  *)
(* RetMemberDelegate.                                                      *)
(*                                                                         *)
(* Values of type size_t are represented by an integer v that stands for   *)
(* v mod 2^64: a small v >= 0 is itself, a small v < 0 is 2^64 + v (the    *)
(* value an unsigned subtraction wraps to).  Equality, addition and        *)
(* subtraction of representatives are exact; unsigned comparison is ULess. *)
(* A conversion of such a value to int gives the representative back.      *)
(*                                                                         *)
(* The Ret variants are instantiated with ReturnType = unsigned short, so  *)
(* that the sums they accumulate keep their width: sum += x reduces the    *)
(* sum modulo 2^16.                                                        *)
(***************************************************************************)
EXTENDS Integers, Sequences, FiniteSets, TLC

\* ------------------------------------------------------------------ bounds

\* Most entries a delegate's subscribers vector, and its parameters vector, may
\* hold under Spec, where every operation is enabled.
MaxLen == 2
\* The same under SpecBuild, where the delegate is built up and then cut down.
MaxBuild == 4
\* The same under SpecGrow, where the delegate is built up and then grown with ++.
MaxGrow == 4
\* Most entries the SimpleDelegate may hold under SpecSimple.
MaxSimple == 4
\* The same under SpecCall, where the delegate is called with fresh arguments.
MaxCall == 3
\* Most callables, and most snapshots, two delegates may hold between them
\* under SpecPair.
MaxPair == 2
\* Most entries each of two delegates may hold under SpecCombine.
MaxCombine == 2
\* Most callables, and most snapshots, two delegates may hold between them under
\* SpecCompare.
MaxCompare == 2
\* Most entries each of two delegates may hold under SpecPositional.
MaxPositional == 2
\* Farthest below zero an index may wrap before the model stops following it.
MaxWrap == 2

\* ------------------------------------------------------------------ inputs

\* The functions the embedding program subscribes (values of FunctionType).
Funcs == {"f", "g"}
\* The argument packs (Params...) the embedding program supplies: one int.
Packs == {1, 2}
\* ReturnType of the Ret variants is unsigned short, of 16 bits: its greatest value.
RetMax == 2^16 - 1
\* What a subscribed function returns for an argument pack (RetDelegate only):
\* f small values, g values next to the greatest ReturnType.
Result(fn, args) == IF fn = "f" THEN args ELSE RetMax - 2 + args
\* The two delegates of the program, its one member delegate and its one
\* SimpleDelegate.
Regs == {"a", "b"}
Members == {"m"}
Simples == {"s"}
\* The functions the embedding program hands to the SimpleDelegate.
SimpleFuncs == {"f", "g", "h"}
\* The methods (values of MemberFunctionType) and the objects they are called on.
Methods == {"m1", "m2"}
Objects == {"o1", "o2"}
MethodLists == {<<>>, <<"m1", "m2">>, <<"m2", "m2">>}
\* What a method returns on an object for an argument pack (RetMemberDelegate only).
MemberResult(obj, method, args) ==
    (IF obj = "o1" THEN 100 ELSE 200)
        + (IF method = "m1" THEN args ELSE RetMax - 300 + args)

\* The initializer lists and vectors the embedding program hands to one call.
FuncLists == {<<>>, <<"f", "g">>, <<"g", "g">>}
PackLists == {<<>>, <<1, 2>>, <<2, 2>>}
\* Values of the int parameter count of Remove, for a delegate of up to n entries.
Counts(n) == (0 - 1) .. (n + 1)

\* ------------------------------------------------------------------ size_t

\* a < b for two size_t values given by their representatives.
ULess(a, b) == IF (a >= 0) = (b >= 0) THEN a < b ELSE a >= 0

\* ------------------------------------------------------------------ ReturnType

\* sum += x for ReturnType sum: both operands are promoted to int, added, and the
\* result x is converted back to unsigned short, that is, reduced modulo 2^16.
Narrow(x) == x % 2^16

\* ------------------------------------------------------------------ state

VARIABLES
    del,    \* del[r]: delegate r's subscribers and parameters vectors
    st,     \* "ok", or how the last call left the program: "ub" (undefined
            \* behaviour was executed) or "hang" (a loop of 2^64 - 1 iterations)
    hist,   \* hist[r]: how r was built so far and the packs Subscribe was given
    last    \* the call that has just returned: its name, delegate, inputs, the
            \* delegate before it and, for an invocation, the calls it made;
            \* Idle once the caller has gone on

vars == <<del, st, hist, last>>

\* A default-constructed delegate.
Empty == [subscribers |-> <<>>, parameters |-> <<>>]

\* FunctionParams<Params...>{index, parameters}
FunctionParams(index, tuple) == [index |-> index, parameters |-> tuple]

\* The outcome of a call on one delegate: the delegate afterwards and whether
\* the call returned normally.
Ok(d) == [reg |-> d, st |-> "ok"]
UB(d) == [reg |-> d, st |-> "ub"]
Hang(d) == [reg |-> d, st |-> "hang"]

\* ------------------------------------------------------------------ helpers

\* AttachParameters recording subscribers.size() instead of subscribers.size() - 1.
AttachParametersAtSize(d, tuple) ==
    [d EXCEPT !.parameters = Append(@, [index |-> Len(d.subscribers), parameters |-> tuple])]

\* AttachParameters(tuple, index_sequence): push {subscribers.size() - 1, tuple}.
AttachParameters(d, tuple) ==
    [d EXCEPT !.parameters =
        Append(@, FunctionParams(Len(d.subscribers) - 1, tuple))]

\* DetachParameters without the loop that corrects the remaining indices.
DetachParametersNoRebase(d, index) ==
    [d EXCEPT !.parameters = SelectSeq(@, LAMBDA x : x.index # index)]

\* DetachParameters(index): erase every snapshot whose index equals index; for
\* index 0 only, lower every remaining index by the number erased.
DetachParameters(d, index) ==
    LET kept == SelectSeq(d.parameters, LAMBDA x : x.index # index)
        erasedCount == Len(d.parameters) - Len(kept)
    IN  IF index # 0
        THEN [d EXCEPT !.parameters = kept]
        ELSE [d EXCEPT !.parameters =
                [i \in 1 .. Len(kept) |->
                    [kept[i] EXCEPT !.index = @ - erasedCount]]]

\* subscribers.push_back(function)
PushBack(d, function) == [d EXCEPT !.subscribers = Append(@, function)]

\* vector::erase(begin() + i): the sequence without its element at offset i.
EraseAt(s, i) == SubSeq(s, 1, i) \o SubSeq(s, i + 2, Len(s))

\* vector::pop_back
PopBack(s) == SubSeq(s, 1, Len(s) - 1)

\* ------------------------------------------------------------------ SimpleDelegate

\* A default-constructed SimpleDelegate: it has the subscribers vector only.
EmptySimple == [subscribers |-> <<>>]

\* SimpleDelegate::operator+=(rhs): subscribers.push_back(rhs)
SimplePlusEq(d, rhs) == [d EXCEPT !.subscribers = Append(@, rhs)]

\* std::remove(begin, end, value) from offset i on, result being the offset the
\* next kept element is moved to: every element that differs from value is
\* moved down to result, in order.  It gives the vector and the new logical end.
RECURSIVE StdRemoveFrom(_, _, _, _)
StdRemoveFrom(s, value, i, result) ==
    IF i >= Len(s) THEN [seq |-> s, end |-> result]
    ELSE IF s[i + 1] # value
    THEN StdRemoveFrom([s EXCEPT ![result + 1] = s[i + 1]], value, i + 1, result + 1)
    ELSE StdRemoveFrom(s, value, i + 1, result)

\* SimpleDelegate::operator-= erasing the first entry equal to rhs only.
SimpleMinusEqFirst(d, rhs) ==
    IF \E i \in 1 .. Len(d.subscribers) : d.subscribers[i] = rhs
    THEN [d EXCEPT !.subscribers =
            EraseAt(@, (CHOOSE i \in 1 .. Len(@) :
                            /\ @[i] = rhs
                            /\ \A j \in 1 .. i - 1 : @[j] # rhs) - 1)]
    ELSE d

\* SimpleDelegate::operator-=(rhs):
\* subscribers.erase(std::remove(begin, end, rhs), end)
SimpleMinusEq(d, rhs) ==
    LET removed == StdRemoveFrom(d.subscribers, rhs, 0, 0)
    IN  [d EXCEPT !.subscribers = SubSeq(removed.seq, 1, removed.end)]

\* SimpleDelegate::operator()(params...): every subscriber, in order, with params.
SimpleCallAll(d, params) ==
    [calls |-> [i \in 1 .. Len(d.subscribers) |->
                    [fn |-> d.subscribers[i], args |-> params]],
     sum |-> 0, st |-> "ok"]

\* ------------------------------------------------------------------ DelegateBase

\* Subscribe(function, params...)
Subscribe(d, function, params) ==
    AttachParameters(PushBack(d, function), params)

\* Subscribe(initializer_list<FunctionType>, params...)
RECURSIVE SubscribeFunctions(_, _, _)
SubscribeFunctions(d, functions, params) ==
    IF functions = <<>> THEN d
    ELSE SubscribeFunctions(Subscribe(d, Head(functions), params),
                            Tail(functions), params)

\* Subscribe(function, vector<tuple<Params...>>)
RECURSIVE SubscribePacks(_, _, _)
SubscribePacks(d, function, params) ==
    IF params = <<>> THEN d
    ELSE SubscribePacks(Subscribe(d, function, Head(params)),
                        function, Tail(params))

\* operator+=(FunctionType)
PlusEq(d, rhs) == PushBack(d, rhs)

\* operator+=(initializer_list<FunctionType>)
RECURSIVE PlusEqList(_, _)
PlusEqList(d, rhs) ==
    IF rhs = <<>> THEN d
    ELSE PlusEqList(PushBack(d, Head(rhs)), Tail(rhs))

\* operator-=(FunctionType): erase(remove(begin, end, rhs), end) keeps the entries
\* that differ from rhs; parameters is not touched.
MinusEq(d, rhs) ==
    [d EXCEPT !.subscribers = SelectSeq(@, LAMBDA x : x # rhs)]

\* operator-=(initializer_list<FunctionType>): erase(remove_if(.., toRemove), end)
\* keeps the entries not found in rhs; parameters is not touched.
MinusEqList(d, rhs) ==
    [d EXCEPT !.subscribers =
        SelectSeq(@, LAMBDA x : ~(\E i \in 1 .. Len(rhs) : rhs[i] = x))]

\* Clear forgetting  this->parameters.clear().
ClearSubscribers(d) == [d EXCEPT !.subscribers = <<>>]

\* Clear()
Clear(d) == [subscribers |-> <<>>, parameters |-> <<>>]

\* The loop  for (size_t i = 0; i < adjustedCount; ++i) DetachParameters(0);
RECURSIVE DetachFront(_, _)
DetachFront(d, n) ==
    IF n <= 0 THEN d ELSE DetachFront(DetachParameters(d, 0), n - 1)

\* The loop  for (...) DetachParameters(parameters.size() - 1);
RECURSIVE DetachBack(_, _)
DetachBack(d, n) ==
    IF n <= 0 THEN d
    ELSE DetachBack(DetachParameters(d, Len(d.parameters) - 1), n - 1)

\* int adjustedCount = count < subscribers.size() ? count : subscribers.size() - 1;
\* count is converted to size_t for the comparison.
AdjustedCount(d, count) ==
    IF ULess(count, Len(d.subscribers)) THEN count ELSE Len(d.subscribers) - 1

\* Remove(int count, bool fromBack)
Remove(d, count, fromBack) ==
    LET size == Len(d.subscribers)
        adjustedCount == AdjustedCount(d, count)
    IN  IF adjustedCount < 0
        THEN \* i < adjustedCount compares against 2^64 - 1
             Hang(d)
        ELSE IF ~fromBack
        THEN LET detached == DetachFront(d, adjustedCount)
             IN  \* subscribers.erase(begin(), begin() + count)
                 IF count < 0 \/ count > size
                 THEN UB(detached)
                 ELSE Ok([detached EXCEPT !.subscribers = SubSeq(@, count + 1, size)])
        ELSE LET detached == DetachBack(d, adjustedCount)
             IN  Ok([detached EXCEPT !.subscribers = SubSeq(@, 1, size - adjustedCount)])

\* &x == &subscriber, for x an element of the vector and subscriber the lambda's
\* own copy of the function pointer: two different objects, whatever they hold.
SameAddress(x, subscriber) == FALSE

\* Remove(const FunctionType&): erase every entry the address test matches.
RemoveFunction(d, subscriber) ==
    [d EXCEPT !.subscribers = SelectSeq(@, LAMBDA x : ~SameAddress(x, subscriber))]

\* Remove(const vector<FunctionType>&): the same test, once for each s of subscribers.
RemoveFunctions(d, subscribers) ==
    [d EXCEPT !.subscribers =
        SelectSeq(@, LAMBDA x :
            ~(\E i \in 1 .. Len(subscribers) : SameAddress(x, subscribers[i])))]

\* operator++() attaching no snapshot for the callable it inserts.
PreIncrementCallableOnly(d) ==
    IF d.subscribers = <<>> THEN d
    ELSE [d EXCEPT !.subscribers = <<Head(d.subscribers)>> \o @]

\* operator++()
PreIncrement(d) ==
    IF d.subscribers = <<>> THEN d
    ELSE LET newDel == Head(d.subscribers)
             inserted == [d EXCEPT !.subscribers = <<newDel>> \o @]
         IN  IF d.parameters = <<>> THEN inserted
             ELSE AttachParameters(inserted, d.parameters[1].parameters)

\* operator++(int) reproducing the first snapshot's arguments, as operator++() does.
PostIncrementFirstArguments(d) ==
    IF d.subscribers = <<>> THEN d
    ELSE LET pushed == PushBack(d, d.subscribers[Len(d.subscribers)])
         IN  IF d.parameters = <<>> THEN pushed
             ELSE AttachParameters(pushed, d.parameters[1].parameters)

\* operator++(int)
PostIncrement(d) ==
    IF d.subscribers = <<>> THEN d
    ELSE LET newDel == d.subscribers[Len(d.subscribers)]
             pushed == PushBack(d, newDel)
         IN  IF d.parameters = <<>> THEN pushed
             ELSE AttachParameters(pushed,
                                   d.parameters[Len(d.parameters)].parameters)

\* operator--()
PreDecrement(d) ==
    IF d.subscribers = <<>> THEN Ok(d)
    ELSE IF d.parameters = <<>>
    THEN Ok([d EXCEPT !.subscribers = PopBack(@)])
    ELSE LET index == d.parameters[Len(d.parameters)].index
             popped == [d EXCEPT !.parameters = PopBack(@)]
         IN  IF index < 0 \/ index >= Len(d.subscribers)
             THEN UB(popped)
             ELSE Ok([popped EXCEPT !.subscribers = EraseAt(@, index)])

\* operator--(int) without its first test, subscribers.empty().
PostDecrementUnguarded(d) ==
    IF d.parameters = <<>>
    THEN IF d.subscribers = <<>> THEN UB(d)
         ELSE Ok([d EXCEPT !.subscribers = SubSeq(@, 1, Len(@) - 1)])
    ELSE LET index == d.parameters[Len(d.parameters)].index
             popped == [d EXCEPT !.parameters = SubSeq(@, 1, Len(@) - 1)]
         IN  IF index < 0 \/ index >= Len(d.subscribers)
             THEN UB(popped)
             ELSE Ok([popped EXCEPT !.subscribers =
                        SubSeq(@, 1, index) \o SubSeq(@, index + 2, Len(@))])

\* operator--(int)
PostDecrement(d) ==
    IF d.subscribers = <<>> THEN Ok(d)
    ELSE IF d.parameters = <<>>
    THEN Ok([d EXCEPT !.subscribers = PopBack(@)])
    ELSE LET index == d.parameters[Len(d.parameters)].index
             popped == [d EXCEPT !.parameters = PopBack(@)]
         IN  IF index < 0 \/ index >= Len(d.subscribers)
             THEN UB(popped)
             ELSE Ok([popped EXCEPT !.subscribers = EraseAt(@, index)])


\* Combine copying each snapshot of other with the index it has in other.
RECURSIVE CombineKeepingIndexFrom(_, _, _)
CombineKeepingIndexFrom(d, other, i) ==
    IF i >= Len(other.subscribers) THEN Ok(d)
    ELSE IF i >= Len(other.parameters) THEN UB(PushBack(d, other.subscribers[i + 1]))
    ELSE CombineKeepingIndexFrom(
            [d EXCEPT !.subscribers = Append(@, other.subscribers[i + 1]),
                      !.parameters = Append(@, other.parameters[i + 1])],
            other, i + 1)

CombineKeepingIndex(d, other, self) ==
    IF self /\ d.subscribers # <<>>
    THEN IF d.parameters = <<>> THEN UB(PushBack(d, d.subscribers[1])) ELSE Hang(d)
    ELSE CombineKeepingIndexFrom(d, other, 0)

\* Combine(const DelegateBase& other), self telling whether other is *this.
\* For i < other.subscribers.size(): push other.subscribers[i] and attach
\* other.parameters[i].parameters.  On the delegate itself the bound grows with
\* every push, so the loop does not end.
RECURSIVE CombineFrom(_, _, _)
CombineFrom(d, other, i) ==
    IF i >= Len(other.subscribers) THEN Ok(d)
    ELSE IF i >= Len(other.parameters) THEN UB(PushBack(d, other.subscribers[i + 1]))
    ELSE CombineFrom(AttachParameters(PushBack(d, other.subscribers[i + 1]),
                                      other.parameters[i + 1].parameters),
                     other, i + 1)

Combine(d, other, self) ==
    IF self /\ d.subscribers # <<>>
    THEN IF d.parameters = <<>> THEN UB(PushBack(d, d.subscribers[1])) ELSE Hang(d)
    ELSE CombineFrom(d, other, 0)

\* The outcome of a call on two delegates, *this and the other one: both
\* afterwards and whether the call returned normally.
Both(res, other) == [reg |-> res.reg, other |-> other, st |-> res.st]

\* operator<< without the test this != &rhs.
ShiftLeftUnguarded(d, rhs, self) ==
    LET combined == Combine(d, rhs, self)
    IN  IF self THEN [reg |-> Clear(combined.reg), other |-> Clear(combined.reg),
                      st |-> combined.st]
        ELSE Both(combined, Clear(rhs))

\* operator<<(DelegateBase& rhs), self telling whether rhs is *this:
\* this->Combine(rhs); rhs.Clear();
ShiftLeft(d, rhs, self) ==
    IF self THEN Both(Ok(d), d)
    ELSE Both(Combine(d, rhs, FALSE), Clear(rhs))

\* operator>> without  this->Clear().
ShiftRightCopying(d, rhs, self) ==
    IF self THEN Both(Ok(d), d)
    ELSE LET combined == Combine(rhs, d, FALSE)
         IN  [reg |-> d, other |-> combined.reg, st |-> combined.st]

\* operator>>(DelegateBase& rhs): rhs.Combine(*this); this->Clear();
\* The outcome is that of the combining call on rhs.
ShiftRight(d, rhs, self) ==
    IF self THEN Both(Ok(d), d)
    ELSE LET combined == Combine(rhs, d, FALSE)
         IN  [reg |-> Clear(d), other |-> combined.reg, st |-> combined.st]

\* The six comparison operators.
Less(d, rhs) == Len(d.subscribers) < Len(rhs.subscribers)
LessEq(d, rhs) == Len(d.subscribers) <= Len(rhs.subscribers)
Greater(d, rhs) == Len(d.subscribers) > Len(rhs.subscribers)
GreaterEq(d, rhs) == Len(d.subscribers) >= Len(rhs.subscribers)
\* operator== comparing the snapshots as well as the callables.
EqualWithParameters(d, rhs) == d = rhs
Equal(d, rhs) == d.subscribers = rhs.subscribers
NotEqual(d, rhs) == d.subscribers # rhs.subscribers

\* ------------------------------------------------------------------ invocation

\* One call made by an invocation: the function called and its arguments.
CallOf(fn, args) == [fn |-> fn, args |-> args]

\* What an invocation did: the calls made, in order, the sum returned (by the
\* Ret variants) and whether every call went to an element of subscribers.
Invoked(calls, sum) == [calls |-> calls, sum |-> sum, st |-> "ok"]
InvokedUB(calls) == [calls |-> calls, sum |-> 0, st |-> "ub"]

\* HelperInvoke(tuple, int index, ...): subscribers[index](tuple...)
InRange(d, index) == 0 <= index /\ index < Len(d.subscribers)
HelperInvoke(d, tuple, index) == CallOf(d.subscribers[index + 1], tuple)

\* Invoke passing the loop counter i, not parameters[i].index, to HelperInvoke.
RECURSIVE InvokeAtPositionFrom(_, _, _)
InvokeAtPositionFrom(d, i, calls) ==
    IF i >= Len(d.parameters) THEN Invoked(calls, 0)
    ELSE IF ~InRange(d, i) THEN InvokedUB(calls)
    ELSE InvokeAtPositionFrom(d, i + 1,
            Append(calls, HelperInvoke(d, d.parameters[i + 1].parameters, i)))

InvokeAtPosition(d) == InvokeAtPositionFrom(d, 0, <<>>)

\* DelegateBase::Invoke(): for each snapshot, HelperInvoke(parameters[i].parameters,
\* parameters[i].index).
RECURSIVE InvokeFrom(_, _, _)
InvokeFrom(d, i, calls) ==
    IF i >= Len(d.parameters) THEN Invoked(calls, 0)
    ELSE LET p == d.parameters[i + 1]
         IN  IF ~InRange(d, p.index) THEN InvokedUB(calls)
             ELSE InvokeFrom(d, i + 1,
                             Append(calls, HelperInvoke(d, p.parameters, p.index)))

Invoke(d) == InvokeFrom(d, 0, <<>>)

\* RetDelegate::Invoke(): result += HelperInvoke(parameters[i].parameters, i).
RECURSIVE RetInvokeFrom(_, _, _, _)
RetInvokeFrom(d, i, calls, result) ==
    IF i >= Len(d.parameters) THEN Invoked(calls, result)
    ELSE LET p == d.parameters[i + 1]
         IN  IF ~InRange(d, i) THEN InvokedUB(calls)
             ELSE LET c == HelperInvoke(d, p.parameters, i)
                  IN  RetInvokeFrom(d, i + 1, Append(calls, c),
                                    Narrow(result + Result(c.fn, c.args)))

RetInvoke(d) == RetInvokeFrom(d, 0, <<>>, 0)

\* Delegate::operator() replaying the snapshots, as Invoke() does, with params.
RECURSIVE CallSnapshotsFrom(_, _, _, _)
CallSnapshotsFrom(d, params, i, calls) ==
    IF i >= Len(d.parameters) THEN Invoked(calls, 0)
    ELSE IF ~InRange(d, d.parameters[i + 1].index) THEN InvokedUB(calls)
    ELSE CallSnapshotsFrom(d, params, i + 1,
            Append(calls, HelperInvoke(d, params, d.parameters[i + 1].index)))

CallSnapshots(d, params) == CallSnapshotsFrom(d, params, 0, <<>>)

\* Delegate::operator()(params...): every subscriber, in order, with params.
CallAll(d, params) ==
    Invoked([i \in 1 .. Len(d.subscribers) |-> CallOf(d.subscribers[i], params)], 0)

\* RetDelegate::operator() with  sum = i(params...)  for  sum += i(params...).
RetCallAllLastResult(d, params) ==
    Invoked([i \in 1 .. Len(d.subscribers) |-> CallOf(d.subscribers[i], params)],
            IF d.subscribers = <<>> THEN 0
            ELSE Result(d.subscribers[Len(d.subscribers)], params))

\* The loop of RetDelegate::operator(): for each i of subscribers, in order,
\* sum += i(params...), from the entry at offset i on.
RECURSIVE RetCallAllFrom(_, _, _, _, _)
RetCallAllFrom(d, params, i, calls, sum) ==
    IF i >= Len(d.subscribers) THEN Invoked(calls, sum)
    ELSE LET c == CallOf(d.subscribers[i + 1], params)
         IN  RetCallAllFrom(d, params, i + 1, Append(calls, c),
                            Narrow(sum + Result(c.fn, c.args)))

\* RetDelegate::operator()(params...): ReturnType sum = ReturnType(); the loop;
\* return sum.
RetCallAll(d, params) == RetCallAllFrom(d, params, 0, <<>>, 0)


\* ------------------------------------------------------------------ MemberDelegateBase

\* MemberFunctionParams<Params...>{index, object, parameters}
MemberFunctionParams(index, obj, tuple) ==
    [index |-> index, object |-> obj, parameters |-> tuple]

\* AttachParameters(obj, tuple, index_sequence)
MemberAttachParameters(d, obj, tuple) ==
    [d EXCEPT !.parameters =
        Append(@, MemberFunctionParams(Len(d.subscribers) - 1, obj, tuple))]

\* Subscribe(obj, method, params...)
MemberSubscribe(d, obj, method, params) ==
    MemberAttachParameters(PushBack(d, method), obj, params)

\* operator+=(MemberFunctionType)
MemberPlusEq(d, rhs) == PushBack(d, rhs)

\* operator+=(initializer_list<MemberFunctionType>)
RECURSIVE MemberPlusEqList(_, _)
MemberPlusEqList(d, rhs) ==
    IF rhs = <<>> THEN d
    ELSE MemberPlusEqList(PushBack(d, Head(rhs)), Tail(rhs))

\* operator-=(MemberFunctionType)
MemberMinusEq(d, rhs) ==
    [d EXCEPT !.subscribers = SelectSeq(@, LAMBDA x : x # rhs)]

\* operator-=(initializer_list<MemberFunctionType>)
MemberMinusEqList(d, rhs) ==
    [d EXCEPT !.subscribers =
        SelectSeq(@, LAMBDA x : ~(\E i \in 1 .. Len(rhs) : rhs[i] = x))]

\* One call made by a member delegate: the method, the object and the arguments.
MemberCallOf(obj, method, args) == [fn |-> method, obj |-> obj, args |-> args]

\* HelperMemberInvoke(obj, tuple, int index, ...): (obj->*subscribers[index])(tuple...)
HelperMemberInvoke(d, obj, tuple, index) ==
    MemberCallOf(obj, d.subscribers[index + 1], tuple)

\* MemberDelegate::Invoke(): HelperMemberInvoke(parameters[i].object,
\* parameters[i].parameters, i).
RECURSIVE MemberInvokeFrom(_, _, _)
MemberInvokeFrom(d, i, calls) ==
    IF i >= Len(d.parameters) THEN Invoked(calls, 0)
    ELSE LET p == d.parameters[i + 1]
         IN  IF ~InRange(d, i) THEN InvokedUB(calls)
             ELSE MemberInvokeFrom(d, i + 1,
                    Append(calls, HelperMemberInvoke(d, p.object, p.parameters, i)))

MemberInvoke(d) == MemberInvokeFrom(d, 0, <<>>)

\* RetMemberDelegate::Invoke(): result += HelperMemberInvoke(..., i).
RECURSIVE RetMemberInvokeFrom(_, _, _, _)
RetMemberInvokeFrom(d, i, calls, result) ==
    IF i >= Len(d.parameters) THEN Invoked(calls, result)
    ELSE LET p == d.parameters[i + 1]
         IN  IF ~InRange(d, i) THEN InvokedUB(calls)
             ELSE LET c == HelperMemberInvoke(d, p.object, p.parameters, i)
                  IN  RetMemberInvokeFrom(d, i + 1, Append(calls, c),
                            Narrow(result + MemberResult(c.obj, c.fn, c.args)))

RetMemberInvoke(d) == RetMemberInvokeFrom(d, 0, <<>>, 0)

\* MemberDelegate::operator()(obj, params...)
MemberCallAll(d, obj, params) ==
    Invoked([i \in 1 .. Len(d.subscribers) |->
                MemberCallOf(obj, d.subscribers[i], params)], 0)

\* The loop of RetMemberDelegate::operator(): result += (obj->*i)(params...).
RECURSIVE RetMemberCallAllFrom(_, _, _, _, _, _)
RetMemberCallAllFrom(d, obj, params, i, calls, result) ==
    IF i >= Len(d.subscribers) THEN Invoked(calls, result)
    ELSE LET c == MemberCallOf(obj, d.subscribers[i + 1], params)
         IN  RetMemberCallAllFrom(d, obj, params, i + 1, Append(calls, c),
                                  Narrow(result + MemberResult(c.obj, c.fn, c.args)))

\* RetMemberDelegate::operator()(obj, params...)
RetMemberCallAll(d, obj, params) == RetMemberCallAllFrom(d, obj, params, 0, <<>>, 0)

\* ------------------------------------------------------------------ history

\* How a delegate was built: "subscribe" while only Subscribe calls were made on
\* it since its construction, "append" while only Subscribe and operator+= calls
\* were, "other" from the first call of any other mutator on.  log lists, while
\* built is not "other", the (function, pack) pairs Subscribe was given, one per
\* pack (one per function for the initializer-list overload).
Fresh == [built |-> "subscribe", log |-> <<>>]
Tainted == [built |-> "other", log |-> <<>>]

Logged(h, entries) ==
    IF h.built = "other" THEN h ELSE [h EXCEPT !.log = @ \o entries]

Appended(h) ==
    IF h.built = "subscribe" THEN [h EXCEPT !.built = "append"] ELSE h

NoOut == [calls |-> <<>>, sum |-> 0, st |-> "none"]
NoIn == [none |-> TRUE]
Idle == [op |-> "idle", reg |-> "a", in |-> NoIn, pre |-> Empty,
         preHist |-> Fresh, out |-> NoOut]

\* ------------------------------------------------------------------ steps

\* The model follows a delegate while its vectors hold at most n entries and no
\* index has wrapped further than MaxWrap below zero.
Followed(d, n) ==
    /\ Len(d.subscribers) <= n
    /\ Len(d.parameters) <= n
    /\ \A i \in 1 .. Len(d.parameters) : d.parameters[i].index >= 0 - MaxWrap

\* A call can be made: the program is running and the last call was dealt with.
Ready == st = "ok" /\ last = Idle

\* What a delegate may hold once undefined behaviour was executed on it.
Garbage(d, pre) == {d, pre, Empty}

\* A call op on delegate r with inputs in, outcome res and history h afterwards.
Step(op, r, n, in, res, h) ==
    /\ Followed(res.reg, n)
    /\ st' = res.st
    /\ del' \in {[del EXCEPT ![r] = after] :
                    after \in (IF res.st = "ub" THEN Garbage(res.reg, del[r])
                                                ELSE {res.reg})}
    /\ hist' = [hist EXCEPT ![r] = h]
    /\ last' = [op |-> op, reg |-> r, in |-> in, pre |-> del[r],
                preHist |-> hist[r], out |-> NoOut]

\* An invocation that drops the snapshots once they were replayed.
InvocationConsuming(op, r, in, out) ==
    /\ st' = out.st
    /\ del' = [del EXCEPT ![r].parameters = <<>>]
    /\ UNCHANGED hist
    /\ last' = [op |-> op, reg |-> r, in |-> in, pre |-> del[r],
                preHist |-> hist[r], out |-> out]

\* An invocation op on delegate r: the vectors are only read.
Invocation(op, r, in, out) ==
    /\ st' = out.st
    /\ UNCHANGED <<del, hist>>
    /\ last' = [op |-> op, reg |-> r, in |-> in, pre |-> del[r],
                preHist |-> hist[r], out |-> out]

DoSubscribe(r, n) ==
    \E function \in Funcs, params \in Packs :
        /\ Ready
        /\ Step("Subscribe", r, n, [function |-> function, params |-> params],
                Ok(Subscribe(del[r], function, params)),
                Logged(hist[r], <<CallOf(function, params)>>))

DoSubscribeFunctions(r, n) ==
    \E functions \in FuncLists, params \in Packs :
        /\ Ready
        /\ Step("SubscribeFunctions", r, n, [functions |-> functions, params |-> params],
                Ok(SubscribeFunctions(del[r], functions, params)),
                Logged(hist[r], [i \in 1 .. Len(functions) |-> CallOf(functions[i], params)]))

DoSubscribePacks(r, n) ==
    \E function \in Funcs, params \in PackLists :
        /\ Ready
        /\ Step("SubscribePacks", r, n, [function |-> function, params |-> params],
                Ok(SubscribePacks(del[r], function, params)),
                Logged(hist[r], [i \in 1 .. Len(params) |-> CallOf(function, params[i])]))

DoPlusEq(r, n) ==
    \E rhs \in Funcs :
        /\ Ready
        /\ Step("PlusEq", r, n, [rhs |-> rhs], Ok(PlusEq(del[r], rhs)), Appended(hist[r]))

DoPlusEqList(r, n) ==
    \E rhs \in FuncLists :
        /\ Ready
        /\ Step("PlusEqList", r, n, [rhs |-> rhs], Ok(PlusEqList(del[r], rhs)),
                Appended(hist[r]))

DoMinusEq(r, n) ==
    \E rhs \in Funcs :
        /\ Ready
        /\ Step("MinusEq", r, n, [rhs |-> rhs], Ok(MinusEq(del[r], rhs)), Tainted)

DoMinusEqList(r, n) ==
    \E rhs \in FuncLists :
        /\ Ready
        /\ Step("MinusEqList", r, n, [rhs |-> rhs], Ok(MinusEqList(del[r], rhs)), Tainted)

DoRemove(r, n) ==
    \E count \in Counts(n), fromBack \in BOOLEAN :
        /\ Ready
        /\ Step("Remove", r, n, [count |-> count, fromBack |-> fromBack],
                Remove(del[r], count, fromBack), Tainted)

DoRemoveFunction(r, n) ==
    \E subscriber \in Funcs :
        /\ Ready
        /\ Step("RemoveFunction", r, n, [subscriber |-> subscriber],
                Ok(RemoveFunction(del[r], subscriber)), Tainted)

DoRemoveFunctions(r, n) ==
    \E subscribers \in FuncLists :
        /\ Ready
        /\ Step("RemoveFunctions", r, n, [subscribers |-> subscribers],
                Ok(RemoveFunctions(del[r], subscribers)), Tainted)

DoClear(r, n) ==
    /\ Ready
    /\ Step("Clear", r, n, NoIn, Ok(Clear(del[r])), Tainted)

DoPreIncrement(r, n) ==
    /\ Ready
    /\ Step("PreIncrement", r, n, NoIn, Ok(PreIncrement(del[r])), Tainted)

DoPostIncrement(r, n) ==
    /\ Ready
    /\ Step("PostIncrement", r, n, NoIn, Ok(PostIncrement(del[r])), Tainted)

DoPreDecrement(r, n) ==
    /\ Ready
    /\ Step("PreDecrement", r, n, NoIn, PreDecrement(del[r]), Tainted)

DoPostDecrement(r, n) ==
    /\ Ready
    /\ Step("PostDecrement", r, n, NoIn, PostDecrement(del[r]), Tainted)

DoInvoke(r) ==
    /\ Ready
    /\ Invocation("Invoke", r, NoIn, Invoke(del[r]))

DoRetInvoke(r) ==
    /\ Ready
    /\ Invocation("RetInvoke", r, NoIn, RetInvoke(del[r]))

DoCallAll(r) ==
    \E params \in Packs :
        /\ Ready
        /\ Invocation("CallAll", r, [params |-> params], CallAll(del[r], params))

DoRetCallAll(r) ==
    \E params \in Packs :
        /\ Ready
        /\ Invocation("RetCallAll", r, [params |-> params], RetCallAll(del[r], params))

DoMemberSubscribe(r, n) ==
    \E obj \in Objects, method \in Methods, params \in Packs :
        /\ Ready
        /\ Step("MemberSubscribe", r, n,
                [obj |-> obj, method |-> method, params |-> params],
                Ok(MemberSubscribe(del[r], obj, method, params)),
                Logged(hist[r], <<MemberCallOf(obj, method, params)>>))

DoMemberPlusEq(r, n) ==
    \E rhs \in Methods :
        /\ Ready
        /\ Step("MemberPlusEq", r, n, [rhs |-> rhs], Ok(MemberPlusEq(del[r], rhs)),
                Appended(hist[r]))

DoMemberPlusEqList(r, n) ==
    \E rhs \in MethodLists :
        /\ Ready
        /\ Step("MemberPlusEqList", r, n, [rhs |-> rhs],
                Ok(MemberPlusEqList(del[r], rhs)), Appended(hist[r]))

DoMemberMinusEq(r, n) ==
    \E rhs \in Methods :
        /\ Ready
        /\ Step("MemberMinusEq", r, n, [rhs |-> rhs], Ok(MemberMinusEq(del[r], rhs)),
                Tainted)

DoMemberMinusEqList(r, n) ==
    \E rhs \in MethodLists :
        /\ Ready
        /\ Step("MemberMinusEqList", r, n, [rhs |-> rhs],
                Ok(MemberMinusEqList(del[r], rhs)), Tainted)

DoMemberInvoke(r) ==
    /\ Ready
    /\ Invocation("MemberInvoke", r, NoIn, MemberInvoke(del[r]))

DoRetMemberInvoke(r) ==
    /\ Ready
    /\ Invocation("RetMemberInvoke", r, NoIn, RetMemberInvoke(del[r]))

DoMemberCallAll(r) ==
    \E obj \in Objects, params \in Packs :
        /\ Ready
        /\ Invocation("MemberCallAll", r, [obj |-> obj, params |-> params],
                      MemberCallAll(del[r], obj, params))

DoRetMemberCallAll(r) ==
    \E obj \in Objects, params \in Packs :
        /\ Ready
        /\ Invocation("RetMemberCallAll", r, [obj |-> obj, params |-> params],
                      RetMemberCallAll(del[r], obj, params))

\* A call op on delegate r that is handed delegate o, with outcome res for the
\* two of them and histories h and oh afterwards.  When o is r itself the
\* outcome for *this is the one kept.
PairStep(op, r, o, n, res, h, oh) ==
    /\ Followed(res.reg, n)
    /\ Followed(res.other, n)
    /\ st' = res.st
    /\ del' \in {[del EXCEPT ![o] = otherAfter, ![r] = after] :
                    after \in (IF res.st = "ub" THEN Garbage(res.reg, del[r])
                                                ELSE {res.reg}),
                    otherAfter \in (IF res.st = "ub" THEN Garbage(res.other, del[o])
                                                     ELSE {res.other})}
    /\ hist' = [hist EXCEPT ![o] = oh, ![r] = h]
    /\ last' = [op |-> op, reg |-> r,
                in |-> [other |-> o, otherPre |-> del[o], otherHist |-> hist[o]],
                pre |-> del[r], preHist |-> hist[r], out |-> NoOut]

DoCombine(r, o, n) ==
    /\ Ready
    /\ PairStep("Combine", r, o, n, Both(Combine(del[r], del[o], r = o), del[o]),
                Tainted, IF r = o THEN Tainted ELSE hist[o])

DoShiftLeft(r, o, n) ==
    /\ Ready
    /\ PairStep("ShiftLeft", r, o, n, ShiftLeft(del[r], del[o], r = o),
                Tainted, Tainted)

DoShiftRight(r, o, n) ==
    /\ Ready
    /\ PairStep("ShiftRight", r, o, n, ShiftRight(del[r], del[o], r = o),
                Tainted, Tainted)

\* A comparison op of delegate r with delegate o: both are only read.
Comparison(op, r, o, result) ==
    /\ UNCHANGED <<del, st, hist>>
    /\ last' = [op |-> op, reg |-> r,
                in |-> [other |-> o, otherPre |-> del[o], otherHist |-> hist[o]],
                pre |-> del[r], preHist |-> hist[r], out |-> [result |-> result]]

DoLess(r, o) ==
    /\ Ready
    /\ Comparison("Less", r, o, Less(del[r], del[o]))

DoLessEq(r, o) ==
    /\ Ready
    /\ Comparison("LessEq", r, o, LessEq(del[r], del[o]))

DoGreater(r, o) ==
    /\ Ready
    /\ Comparison("Greater", r, o, Greater(del[r], del[o]))

DoGreaterEq(r, o) ==
    /\ Ready
    /\ Comparison("GreaterEq", r, o, GreaterEq(del[r], del[o]))

DoEqual(r, o) ==
    /\ Ready
    /\ Comparison("Equal", r, o, Equal(del[r], del[o]))

DoNotEqual(r, o) ==
    /\ Ready
    /\ Comparison("NotEqual", r, o, NotEqual(del[r], del[o]))

\* A call op on the SimpleDelegate r with inputs in, which leaves it as d.
SimpleStep(op, r, n, in, d) ==
    /\ Len(d.subscribers) <= n
    /\ st' = "ok"
    /\ del' = [del EXCEPT ![r] = d]
    /\ UNCHANGED hist
    /\ last' = [op |-> op, reg |-> r, in |-> in, pre |-> del[r],
                preHist |-> hist[r], out |-> NoOut]

DoSimplePlusEq(r, n) ==
    \E rhs \in SimpleFuncs :
        /\ Ready
        /\ SimpleStep("SimplePlusEq", r, n, [rhs |-> rhs], SimplePlusEq(del[r], rhs))

DoSimpleMinusEq(r, n) ==
    \E rhs \in SimpleFuncs :
        /\ Ready
        /\ SimpleStep("SimpleMinusEq", r, n, [rhs |-> rhs], SimpleMinusEq(del[r], rhs))

DoSimpleCallAll(r) ==
    \E params \in Packs :
        /\ Ready
        /\ Invocation("SimpleCallAll", r, [params |-> params],
                      SimpleCallAll(del[r], params))

Init ==
    /\ del = [r \in Regs \cup Members \cup Simples |->
                IF r \in Simples THEN EmptySimple ELSE Empty]
    /\ st = "ok"
    /\ hist = [r \in Regs \cup Members \cup Simples |-> Fresh]
    /\ last = Idle

\* The caller goes on after a call that returned normally.
Return ==
    /\ st = "ok"
    /\ last # Idle
    /\ last' = Idle
    /\ UNCHANGED <<del, st, hist>>

\* Every operation of one Delegate / RetDelegate, in any order.
Next ==
    \/ DoSubscribe("a", MaxLen)
    \/ DoSubscribeFunctions("a", MaxLen)
    \/ DoSubscribePacks("a", MaxLen)
    \/ DoPlusEq("a", MaxLen)
    \/ DoPlusEqList("a", MaxLen)
    \/ DoMinusEq("a", MaxLen)
    \/ DoMinusEqList("a", MaxLen)
    \/ DoRemove("a", MaxLen)
    \/ DoRemoveFunction("a", MaxLen)
    \/ DoRemoveFunctions("a", MaxLen)
    \/ DoClear("a", MaxLen)
    \/ DoPreIncrement("a", MaxLen)
    \/ DoPostIncrement("a", MaxLen)
    \/ DoPreDecrement("a", MaxLen)
    \/ DoPostDecrement("a", MaxLen)
    \/ DoInvoke("a")
    \/ DoRetInvoke("a")
    \/ DoCallAll("a")
    \/ DoRetCallAll("a")
    \/ Return

Spec == Init /\ [][Next]_vars

\* A delegate built up with Subscribe and operator+=, then cut down with Remove,
\* and replayed with Invoke at any point.
Building == hist["a"].built # "other"

NextBuild ==
    \/ Building /\ DoSubscribe("a", MaxBuild)
    \/ Building /\ DoSubscribeFunctions("a", MaxBuild)
    \/ Building /\ DoSubscribePacks("a", MaxBuild)
    \/ Building /\ DoPlusEq("a", MaxBuild)
    \/ Building /\ DoPlusEqList("a", MaxBuild)
    \/ DoRemove("a", MaxBuild)
    \/ DoInvoke("a")
    \/ DoRetInvoke("a")
    \/ Return

SpecBuild == Init /\ [][NextBuild]_vars

\* A delegate built up with Subscribe and operator+=, then grown with ++ and
\* cut down with -- and operator-=, and replayed with Invoke at any point.
NextGrow ==
    \/ Building /\ DoSubscribe("a", MaxGrow)
    \/ Building /\ DoSubscribePacks("a", MaxGrow)
    \/ Building /\ DoPlusEq("a", MaxGrow)
    \/ DoMinusEq("a", MaxGrow)
    \/ DoPreIncrement("a", MaxGrow)
    \/ DoPostIncrement("a", MaxGrow)
    \/ DoPreDecrement("a", MaxGrow)
    \/ DoPostDecrement("a", MaxGrow)
    \/ DoInvoke("a")
    \/ Return

SpecGrow == Init /\ [][NextGrow]_vars

\* A program that works either with one Delegate / RetDelegate or with one
\* MemberDelegate / RetMemberDelegate: it subscribes, unsubscribes, and calls
\* the delegate with fresh arguments.
OnlyDelegate == del["m"] = Empty /\ hist["m"] = Fresh
OnlyMember == del["a"] = Empty /\ hist["a"] = Fresh

NextCall ==
    \/ OnlyDelegate /\ DoSubscribe("a", MaxCall)
    \/ OnlyDelegate /\ DoPlusEq("a", MaxCall)
    \/ OnlyDelegate /\ DoMinusEq("a", MaxCall)
    \/ OnlyDelegate /\ DoCallAll("a")
    \/ OnlyDelegate /\ DoRetCallAll("a")
    \/ OnlyMember /\ DoMemberSubscribe("m", MaxCall)
    \/ OnlyMember /\ DoMemberPlusEq("m", MaxCall)
    \/ OnlyMember /\ DoMemberCallAll("m")
    \/ OnlyMember /\ DoRetMemberCallAll("m")
    \/ Return

SpecCall == Init /\ [][NextCall]_vars

\* Every operation of one MemberDelegate / RetMemberDelegate, in any order.
\* (MemberDelegateBase::Clear does not compile when instantiated: no program calls it.)
NextMember ==
    \/ DoMemberSubscribe("m", MaxLen)
    \/ DoMemberPlusEq("m", MaxLen)
    \/ DoMemberPlusEqList("m", MaxLen)
    \/ DoMemberMinusEq("m", MaxLen)
    \/ DoMemberMinusEqList("m", MaxLen)
    \/ DoMemberInvoke("m")
    \/ DoRetMemberInvoke("m")
    \/ DoMemberCallAll("m")
    \/ DoRetMemberCallAll("m")
    \/ Return

SpecMember == Init /\ [][NextMember]_vars

\* The two delegates hold at most n callables and n snapshots between them.
Together(n) ==
    /\ Len(del["a"].subscribers) + Len(del["b"].subscribers) <= n
    /\ Len(del["a"].parameters) + Len(del["b"].parameters) <= n

\* Two delegates of one type, each built up with Subscribe and operator+= and
\* cut down with operator-=, combined and shifted into one another (and into
\* themselves), and replayed with Invoke at any point.
NextPair ==
    \/ \E r \in Regs : DoSubscribe(r, MaxPair) /\ Together(MaxPair)'
    \/ \E r \in Regs : DoPlusEq(r, MaxPair) /\ Together(MaxPair)'
    \/ \E r \in Regs : DoMinusEq(r, MaxPair)
    \/ \E r \in Regs, o \in Regs : DoCombine(r, o, MaxPair) /\ Together(MaxPair)'
    \/ \E r \in Regs, o \in Regs : DoShiftLeft(r, o, MaxPair)
    \/ \E r \in Regs, o \in Regs : DoShiftRight(r, o, MaxPair)
    \/ \E r \in Regs : DoInvoke(r)
    \/ Return

SpecPair == Init /\ [][NextPair]_vars

\* Two delegates of one type, each holding up to MaxCombine entries, built up and
\* cut down as above and combined into one another and into themselves.
NextCombine ==
    \/ \E r \in Regs : DoSubscribe(r, MaxCombine)
    \/ \E r \in Regs : DoPlusEq(r, MaxCombine)
    \/ \E r \in Regs : DoMinusEq(r, MaxCombine)
    \/ \E r \in Regs, o \in Regs : DoCombine(r, o, MaxCombine)
    \/ \E r \in Regs : DoInvoke(r)
    \/ Return

SpecCombine == Init /\ [][NextCombine]_vars

\* Two delegates of one type, each built up with Subscribe and operator+= and
\* cut down with operator-=, and compared with one another (and with themselves).
NextCompare ==
    \/ \E r \in Regs : DoSubscribe(r, MaxCompare) /\ Together(MaxCompare)'
    \/ \E r \in Regs : DoPlusEq(r, MaxCompare) /\ Together(MaxCompare)'
    \/ \E r \in Regs : DoMinusEq(r, MaxCompare)
    \/ \E r \in Regs, o \in Regs : DoLess(r, o)
    \/ \E r \in Regs, o \in Regs : DoLessEq(r, o)
    \/ \E r \in Regs, o \in Regs : DoGreater(r, o)
    \/ \E r \in Regs, o \in Regs : DoGreaterEq(r, o)
    \/ \E r \in Regs, o \in Regs : DoEqual(r, o)
    \/ \E r \in Regs, o \in Regs : DoNotEqual(r, o)
    \/ Return

SpecCompare == Init /\ [][NextCompare]_vars

\* The last call was not Remove, or was Remove(count, true) with count >= 0 on a
\* delegate with callables, or Remove(count, false) with 0 <= count < the number
\* of callables.
RemoveWithin ==
    last.op = "Remove" =>
        /\ 0 <= last.in.count
        /\ IF last.in.fromBack THEN last.pre.subscribers # <<>>
           ELSE last.in.count < Len(last.pre.subscribers)

\* Two delegates of one type, each built up with the Subscribe overloads and ++,
\* cut down with --, Remove (called as RemoveWithin says) and Clear, and combined
\* and shifted into one another.
NextPositional ==
    \/ \E r \in Regs : DoSubscribe(r, MaxPositional)
    \/ \E r \in Regs : DoSubscribeFunctions(r, MaxPositional)
    \/ \E r \in Regs : DoSubscribePacks(r, MaxPositional)
    \/ \E r \in Regs : DoPreIncrement(r, MaxPositional)
    \/ \E r \in Regs : DoPostIncrement(r, MaxPositional)
    \/ \E r \in Regs : DoPreDecrement(r, MaxPositional)
    \/ \E r \in Regs : DoPostDecrement(r, MaxPositional)
    \/ \E r \in Regs : DoRemove(r, MaxPositional) /\ RemoveWithin'
    \/ \E r \in Regs : DoClear(r, MaxPositional)
    \/ \E r \in Regs : \E o \in Regs \ {r} : DoCombine(r, o, MaxPositional)
    \/ \E r \in Regs : \E o \in Regs \ {r} : DoShiftLeft(r, o, MaxPositional)
    \/ \E r \in Regs : \E o \in Regs \ {r} : DoShiftRight(r, o, MaxPositional)
    \/ Return

SpecPositional == Init /\ [][NextPositional]_vars

\* Every operation of one SimpleDelegate, in any order.
NextSimple ==
    \/ DoSimplePlusEq("s", MaxSimple)
    \/ DoSimpleMinusEq("s", MaxSimple)
    \/ DoSimpleCallAll("s")
    \/ Return

SpecSimple == Init /\ [][NextSimple]_vars

\* ------------------------------------------------------------------ claims

Min(x, y) == IF x < y THEN x ELSE y

\* The sum of the results of a sequence of calls to free functions.
RECURSIVE SumOfResults(_)
SumOfResults(calls) ==
    IF calls = <<>> THEN 0
    ELSE Result(Head(calls).fn, Head(calls).args) + SumOfResults(Tail(calls))

\* C1 (I1, index safety): after any sequence of public operations that returned
\* normally, every snapshot's index satisfies 0 <= index < len(callables).
C1_IndexInRange ==
    st = "ok" =>
        \A i \in 1 .. Len(del["a"].parameters) :
            InRange(del["a"], del["a"].parameters[i].index)

\* C2 (I1, length bound): after any sequence of public operations that returned
\* normally, len(snapshots) <= len(callables).
C2_LengthBound ==
    st = "ok" => Len(del["a"].parameters) <= Len(del["a"].subscribers)

\* C3 (P1): after Subscribe calls only, starting from an empty delegate,
\* len(callables) = len(snapshots) = number of packs supplied, and the j-th
\* snapshot has index j (counted from 0) and the j-th supplied pack.
C3_SubscribeOnly ==
    hist["a"].built = "subscribe" =>
        LET d == del["a"]
            log == hist["a"].log
        IN  /\ Len(d.subscribers) = Len(log)
            /\ Len(d.parameters) = Len(log)
            /\ \A j \in 1 .. Len(log) :
                  /\ d.parameters[j].index = j - 1
                  /\ d.parameters[j].parameters = log[j].args

\* C3's case: a vector of two packs subscribed after a single Subscribe.
C3_Witness ==
    /\ hist["a"].built = "subscribe"
    /\ last.op = "SubscribePacks"
    /\ Len(last.in.params) = 2
    /\ Len(last.pre.subscribers) = 1
    /\ Len(del["a"].parameters) = 3

\* C4 (P2): in a Delegate built by += and Subscribe only, Invoke() makes exactly
\* one call per Subscribe-supplied pack, in order, to the function given to that
\* Subscribe and with that pack; functions added with += alone are not called.
C4_InvokeReplaysSubscriptions ==
    (last.op = "Invoke" /\ last.preHist.built # "other") =>
        /\ last.out.st = "ok"
        /\ last.out.calls = last.preHist.log

\* C4's case: Invoke on a delegate whose first entry came from += and that holds
\* two snapshots for different functions.
C4_Witness ==
    /\ last.op = "Invoke"
    /\ last.preHist.built = "append"
    /\ Len(last.pre.parameters) = 2
    /\ last.pre.parameters[1].index = 1
    /\ last.pre.subscribers[2] # last.pre.subscribers[3]
    /\ Len(last.out.calls) = 2

\* C5: whenever DelegateBase::Invoke() is defined, RetDelegate::Invoke() makes the
\* same calls, callables[snapshot.index] with snapshot.args for each snapshot in
\* order, and returns the sum of their results (wherever that sum fits ReturnType).
C5_RetInvokeAgrees ==
    (last.op = "RetInvoke" /\ Invoke(last.pre).st = "ok") =>
        /\ last.out.st = "ok"
        /\ last.out.calls = Invoke(last.pre).calls
        /\ (SumOfResults(Invoke(last.pre).calls) <= RetMax =>
               last.out.sum = SumOfResults(Invoke(last.pre).calls))

\* C6: in a member delegate built by += and Subscribe(obj, method, args) only,
\* Invoke() calls, for each snapshot in order, the method given to that Subscribe
\* on the object and with the arguments given to it.
C6_MemberInvokeReplays ==
    (last.op \in {"MemberInvoke", "RetMemberInvoke"} /\ last.preHist.built # "other") =>
        /\ last.out.st = "ok"
        /\ last.out.calls = last.preHist.log

\* C7: for len(callables) >= 1 and count >= 0, Remove(count, fromBack) removes
\* exactly min(count, len(callables) - 1) callables, from the back and from the front.
C7_RemoveCount ==
    (last.op = "Remove" /\ Len(last.pre.subscribers) >= 1 /\ last.in.count >= 0) =>
        /\ st = "ok"
        /\ Len(del["a"].subscribers) =
              Len(last.pre.subscribers)
                - Min(last.in.count, Len(last.pre.subscribers) - 1)

\* C8: in a Delegate built by Subscribe only, with replay calls c_1..c_n, after
\* Remove(k, true), 0 < k < n, Invoke() makes exactly c_1..c_(n-k), and after
\* Remove(k, false), 0 < k < n, exactly c_(k+1)..c_n.
C8_RemoveKeepsReplay ==
    (/\ last.op = "Remove"
     /\ last.preHist.built = "subscribe"
     /\ 0 < last.in.count
     /\ last.in.count < Len(last.pre.subscribers)) =>
        LET c == Invoke(last.pre).calls
            n == Len(last.pre.subscribers)
            k == last.in.count
        IN  /\ st = "ok"
            /\ Len(c) = n
            /\ Invoke(del["a"]) =
                  Invoked(IF last.in.fromBack THEN SubSeq(c, 1, n - k)
                                              ELSE SubSeq(c, k + 1, n), 0)

\* C8's case: one entry removed from the front of three, the two kept being
\* different functions with different packs.
C8_Witness ==
    /\ last.op = "Remove"
    /\ last.preHist.built = "subscribe"
    /\ ~last.in.fromBack
    /\ last.in.count = 1
    /\ Len(last.pre.subscribers) = 3
    /\ last.pre.subscribers[2] # last.pre.subscribers[3]
    /\ last.pre.parameters[2].parameters # last.pre.parameters[3].parameters
    /\ Len(del["a"].parameters) = 2

\* C9: on an empty delegate, Remove(count, fromBack) returns and leaves callables
\* and snapshots empty, for any count and either value of fromBack.
C9_RemoveOnEmpty ==
    (last.op = "Remove" /\ last.pre = Empty) =>
        /\ st = "ok"
        /\ del["a"] = Empty

\* C10: prefix and postfix ++ and --, operator-= and Clear on an empty delegate
\* return normally and leave callables and snapshots empty.
C10_NoOpOnEmpty ==
    (/\ last.op \in {"PreIncrement", "PostIncrement", "PreDecrement", "PostDecrement",
                     "MinusEq", "MinusEqList", "Clear"}
     /\ last.pre = Empty) =>
        /\ st = "ok"
        /\ del["a"] = Empty

\* C10's case: postfix -- has just returned on a delegate that was emptied by
\* earlier calls, not only freshly constructed.
C10_Witness ==
    /\ last.op = "PostDecrement"
    /\ last.pre = Empty
    /\ last.preHist.built = "other"

\* The snapshots of d that designate its callable at offset j.
SnapshotsOf(d, j) == {i \in 1 .. Len(d.parameters) : d.parameters[i].index = j}

\* d has exactly one snapshot per callable, and no other snapshot.
OneSnapshotPerCallable(d) ==
    /\ Len(d.parameters) = Len(d.subscribers)
    /\ \A j \in 0 .. Len(d.subscribers) - 1 : Cardinality(SnapshotsOf(d, j)) = 1

\* The arguments d stores for its callable at offset j.
StoredArguments(d, j) == d.parameters[CHOOSE i \in SnapshotsOf(d, j) : TRUE].parameters

TransferSource == IF last.op = "ShiftLeft" THEN last.in.other ELSE last.reg
TransferTarget == IF last.op = "ShiftLeft" THEN last.reg ELSE last.in.other
TransferPre(r) == IF r = last.reg THEN last.pre ELSE last.in.otherPre
TransferPreHist(r) == IF r = last.reg THEN last.preHist ELSE last.in.otherHist

\* C12: for distinct a and b where b was built by Subscribe only, after a << b the
\* delegate b has no callables and no snapshots, a has as many callables as both
\* had, and a.Invoke() makes a's original replay calls followed by b's, in
\* order; a >> b does the same with the roles exchanged.
C12_Transfer ==
    (/\ last.op \in {"ShiftLeft", "ShiftRight"}
     /\ last.reg # last.in.other
     /\ TransferPreHist(TransferSource).built = "subscribe") =>
        LET src == TransferPre(TransferSource)
            dst == TransferPre(TransferTarget)
        IN  /\ st = "ok"
            /\ del[TransferSource] = Empty
            /\ Len(del[TransferTarget].subscribers) =
                  Len(dst.subscribers) + Len(src.subscribers)
            /\ Invoke(src).st = "ok"
            /\ (Invoke(dst).st = "ok" =>
                   Invoke(del[TransferTarget]) =
                       Invoked(Invoke(dst).calls \o Invoke(src).calls, 0))

\* C12's case: a << b where a holds one function added with += and b one
\* subscription of another function, whose snapshot is re-indexed in a.
C12_Witness ==
    /\ last.op = "ShiftLeft"
    /\ last.reg = "a"
    /\ last.in.other = "b"
    /\ last.in.otherHist.built = "subscribe"
    /\ Len(last.pre.subscribers) = 1
    /\ last.pre.parameters = <<>>
    /\ Len(last.in.otherPre.parameters) = 1
    /\ last.in.otherPre.subscribers[1] # last.pre.subscribers[1]
    /\ del["a"].parameters[1].index = 1
    /\ del["b"] = Empty

\* C13: a << a and a >> a leave a's callables and snapshots exactly as they were.
C13_SelfTransfer ==
    (last.op \in {"ShiftLeft", "ShiftRight"} /\ last.reg = last.in.other) =>
        /\ st = "ok"
        /\ del[last.reg] = last.pre

\* C13's case: a << a on a delegate that holds a callable and its snapshot.
C13_Witness ==
    /\ last.op = "ShiftLeft"
    /\ last.reg = last.in.other
    /\ last.pre.subscribers # <<>>
    /\ last.pre.parameters # <<>>
    /\ del[last.reg] = last.pre

\* The last element of a non-empty sequence.
Last(s) == s[Len(s)]

\* How many of the calls are the call c.
Occurrences(calls, c) == Cardinality({i \in 1 .. Len(calls) : calls[i] = c})

\* Every call a delegate of the program can make.
Calls == {CallOf(fn, args) : fn \in Funcs, args \in Packs}

\* C14: postfix ++ on a non-empty Delegate with at least one snapshot appends a
\* copy of the last callable and one new snapshot with the last snapshot's
\* arguments, indexed at the new last position, and changes nothing else, so
\* Invoke() afterwards makes the previous replay calls followed by one call of
\* the last callable with the last snapshot's arguments.
C14_DuplicateLast ==
    (/\ last.op = "PostIncrement"
     /\ last.pre.subscribers # <<>>
     /\ last.pre.parameters # <<>>) =>
        LET function == Last(last.pre.subscribers)
            tuple == Last(last.pre.parameters).parameters
        IN  /\ st = "ok"
            /\ del["a"].subscribers = Append(last.pre.subscribers, function)
            /\ del["a"].parameters =
                  Append(last.pre.parameters,
                         FunctionParams(Len(last.pre.subscribers), tuple))
            /\ (Invoke(last.pre).st = "ok" =>
                   Invoke(del["a"]) =
                       Invoked(Append(Invoke(last.pre).calls, CallOf(function, tuple)), 0))

\* C14's case: one function subscribed with three packs, the first and the last
\* different, then ++: the replay ends with the last pack twice.
C14_Witness ==
    /\ last.op = "PostIncrement"
    /\ last.preHist.built = "subscribe"
    /\ Len(last.pre.parameters) = 3
    /\ last.pre.parameters[1].parameters # last.pre.parameters[3].parameters
    /\ Len(Invoke(del["a"]).calls) = 4
    /\ Invoke(del["a"]).calls[4] = Invoke(del["a"]).calls[3]

\* C15: prefix ++ on a Delegate built by Subscribe only inserts a copy of the
\* first callable at position 0, and Invoke() afterwards makes exactly the calls
\* it made before plus one more call of the first callable with the first
\* snapshot's arguments.
C15_DuplicateFirst ==
    (/\ last.op = "PreIncrement"
     /\ last.preHist.built = "subscribe"
     /\ last.pre.subscribers # <<>>) =>
        LET before == Invoke(last.pre).calls
            after == Invoke(del["a"])
            extra == CallOf(last.pre.subscribers[1], last.pre.parameters[1].parameters)
        IN  /\ st = "ok"
            /\ del["a"].subscribers = <<last.pre.subscribers[1]>> \o last.pre.subscribers
            /\ after.st = "ok"
            /\ \A c \in Calls :
                  Occurrences(after.calls, c) =
                      Occurrences(before, c) + (IF c = extra THEN 1 ELSE 0)

\* The snapshots of d other than those that designate its callable at offset j.
WithoutSnapshotsOf(d, j) == SelectSeq(d.parameters, LAMBDA x : x.index # j)

\* C16: postfix -- on a non-empty delegate reached through += and Subscribe
\* removes exactly the last element of callables, together with that element's
\* snapshot if it has one.
C16_RemoveLast ==
    (/\ last.op = "PostDecrement"
     /\ last.preHist.built # "other"
     /\ last.pre.subscribers # <<>>) =>
        /\ st = "ok"
        /\ del["a"].subscribers = PopBack(last.pre.subscribers)
        /\ del["a"].parameters =
              WithoutSnapshotsOf(last.pre, Len(last.pre.subscribers) - 1)

\* C17: prefix -- on a non-empty delegate removes the element at position 0 of
\* callables, together with that element's snapshot.
C17_RemoveFirst ==
    (last.op = "PreDecrement" /\ last.pre.subscribers # <<>>) =>
        /\ st = "ok"
        /\ del["a"].subscribers = Tail(last.pre.subscribers)
        /\ Len(del["a"].parameters) = Len(WithoutSnapshotsOf(last.pre, 0))

\* C18: operator()(args) on a Delegate calls every entry of callables once, in
\* callables order, each with args, whatever snapshots are stored.
C18_CallsEveryEntry ==
    last.op = "CallAll" =>
        /\ last.out.st = "ok"
        /\ Len(last.out.calls) = Len(last.pre.subscribers)
        /\ \A i \in 1 .. Len(last.pre.subscribers) :
              last.out.calls[i] = CallOf(last.pre.subscribers[i], last.in.params)

\* C18's case: a delegate holding f twice and g once, with a single snapshot,
\* is called: three calls, two of them of f.
C18_Witness ==
    /\ last.op = "CallAll"
    /\ Len(last.pre.subscribers) = 3
    /\ Len(last.pre.parameters) = 1
    /\ Occurrences(last.pre.subscribers, "f") = 2
    /\ Len(last.out.calls) = 3
    /\ last.pre.parameters[1].parameters # last.in.params

\* What one call returns, to a free function or to a method on an object.
ResultOf(c) ==
    IF "obj" \in DOMAIN c THEN MemberResult(c.obj, c.fn, c.args)
    ELSE Result(c.fn, c.args)

\* The sum, as a number, of what the calls return.
RECURSIVE TotalOf(_)
TotalOf(calls) ==
    IF calls = <<>> THEN 0 ELSE ResultOf(Head(calls)) + TotalOf(Tail(calls))

\* The calls operator()(args) is to make: one per entry of callables, with the
\* arguments (and the object) it was given.
EveryEntryWith(d, in) ==
    [i \in 1 .. Len(d.subscribers) |->
        IF "obj" \in DOMAIN in THEN MemberCallOf(in.obj, d.subscribers[i], in.params)
        ELSE CallOf(d.subscribers[i], in.params)]

\* C19 as stated (P3): operator()(args) of RetDelegate and RetMemberDelegate
\* returns the sum of the results of calling each entry of callables with args,
\* and 0 when there are no subscribers.
C19_ReturnsSum ==
    last.op \in {"RetCallAll", "RetMemberCallAll"} =>
        /\ last.out.st = "ok"
        /\ last.out.sum = TotalOf(EveryEntryWith(last.pre, last.in))

\* C19 as amended: operator()(args) returns the sum of the results reduced
\* modulo 2^16, the width of ReturnType, hence the sum itself whenever it fits
\* ReturnType, and 0 when there are no subscribers.
C19_ReturnsSumInReturnType ==
    last.op \in {"RetCallAll", "RetMemberCallAll"} =>
        LET total == TotalOf(EveryEntryWith(last.pre, last.in))
        IN  /\ last.out.st = "ok"
            /\ last.out.calls = EveryEntryWith(last.pre, last.in)
            /\ last.out.sum = total % 2^16
            /\ (total <= RetMax => last.out.sum = total)
            /\ (last.pre.subscribers = <<>> => last.out.sum = 0)

\* C19's case: the results of two different functions add up to exactly the
\* greatest value of ReturnType, which is returned.
C19_Witness ==
    /\ last.op = "RetCallAll"
    /\ Len(last.pre.subscribers) = 2
    /\ last.pre.subscribers[1] # last.pre.subscribers[2]
    /\ last.out.sum = RetMax
    /\ last.out.sum = TotalOf(EveryEntryWith(last.pre, last.in))

\* The entries of s other than f, in their order in s.
RECURSIVE Others(_, _)
Others(s, f) ==
    IF s = <<>> THEN <<>>
    ELSE IF Head(s) = f THEN Others(Tail(s), f)
    ELSE <<Head(s)>> \o Others(Tail(s), f)

\* C20: SimpleDelegate operator-=(f) removes every entry equal to f, keeps the
\* other entries in their order and changes nothing when no entry equals f;
\* operator+=(f) appends f at the end even if f is already present.
C20_SimpleRemoval ==
    /\ last.op = "SimpleMinusEq" =>
          /\ del["s"].subscribers = Others(last.pre.subscribers, last.in.rhs)
          /\ (Occurrences(last.pre.subscribers, last.in.rhs) = 0 => del["s"] = last.pre)
    /\ last.op = "SimplePlusEq" =>
          /\ Len(del["s"].subscribers) = Len(last.pre.subscribers) + 1
          /\ Last(del["s"].subscribers) = last.in.rhs
          /\ SubSeq(del["s"].subscribers, 1, Len(last.pre.subscribers)) =
                last.pre.subscribers

\* C20's case: a function held twice, with another entry between the two and a
\* third one after them, is removed: the two others are left, in their order.
C20_Witness ==
    /\ last.op = "SimpleMinusEq"
    /\ Len(last.pre.subscribers) = 4
    /\ last.pre.subscribers[1] = last.in.rhs
    /\ last.pre.subscribers[3] = last.in.rhs
    /\ last.pre.subscribers[2] # last.pre.subscribers[4]
    /\ del["s"].subscribers = <<last.pre.subscribers[2], last.pre.subscribers[4]>>

\* C21. From any state the program can be in, Clear() leaves subscribers and
\* parameters empty: Invoke() and operator()(args), with or without a return
\* value, then make no call, and the delegate compares == to a newly
\* constructed one (and the new one to it).
C21_ClearEmpties ==
    last.op = "Clear" =>
        LET d == del[last.reg]
        IN  /\ st = "ok"
            /\ d.subscribers = <<>>
            /\ d.parameters = <<>>
            /\ Invoke(d) = Invoked(<<>>, 0)
            /\ RetInvoke(d) = Invoked(<<>>, 0)
            /\ \A params \in Packs :
                /\ CallAll(d, params) = Invoked(<<>>, 0)
                /\ RetCallAll(d, params) = Invoked(<<>>, 0)
            /\ Equal(d, Empty)
            /\ Equal(Empty, d)
            /\ ~NotEqual(d, Empty)

\* Clear() was called on a delegate that held a callable and a snapshot whose
\* index designated none of its callables.
C21_Witness ==
    /\ last.op = "Clear"
    /\ last.pre.subscribers # <<>>
    /\ Invoke(last.pre).st = "ub"
    /\ del[last.reg] = Empty

\* C22. operator<, <=, > and >= give what the same comparison of the two numbers
\* of callables gives; operator== holds exactly when the two delegates have the
\* same number of callables and the same callable at every position, and
\* operator!= exactly when operator== does not.  The snapshots of neither
\* delegate have any influence.
Comparisons == {"Less", "LessEq", "Greater", "GreaterEq", "Equal", "NotEqual"}

C22_Comparisons ==
    last.op \in Comparisons =>
        LET d == last.pre
            rhs == last.in.otherPre
            n == Len(d.subscribers)
            m == Len(rhs.subscribers)
            same == n = m /\ \A i \in 1 .. n : d.subscribers[i] = rhs.subscribers[i]
        IN  /\ del[last.reg] = d
            /\ del[last.in.other] = rhs
            /\ last.op = "Less" => (last.out.result <=> n < m)
            /\ last.op = "LessEq" => (last.out.result <=> n <= m)
            /\ last.op = "Greater" => (last.out.result <=> n > m)
            /\ last.op = "GreaterEq" => (last.out.result <=> n >= m)
            /\ last.op = "Equal" => (last.out.result <=> same)
            /\ last.op = "NotEqual" => (last.out.result <=> ~same)

\* Two delegates with the same callables and different stored arguments were
\* compared with == and found equal.
C22_Witness ==
    /\ last.op = "Equal"
    /\ last.out.result
    /\ last.pre.subscribers # <<>>
    /\ Len(last.pre.parameters) = Len(last.in.otherPre.parameters)
    /\ last.pre.parameters # last.in.otherPre.parameters

\* C23. In a delegate built with any interleaving of operator+= and Subscribe,
\* Remove(count, fromBack) with 1 <= count < the number of callables returns and
\* leaves exactly the snapshots of the callables it did not remove, in order,
\* each designating the callable it designated before: unchanged when the
\* callables were removed from the back, lowered by count when from the front.
SurvivingSnapshots(d, count, fromBack) ==
    LET size == Len(d.subscribers)
        first == IF fromBack THEN 0 ELSE count
        kept == SelectSeq(d.parameters,
                    LAMBDA x : first <= x.index /\ x.index < first + size - count)
    IN  [i \in 1 .. Len(kept) |-> [kept[i] EXCEPT !.index = @ - first]]

C23_RemoveMixed ==
    (/\ last.op = "Remove"
     /\ last.preHist.built # "other"
     /\ 1 <= last.in.count
     /\ last.in.count < Len(last.pre.subscribers))
    => /\ st = "ok"
       /\ del[last.reg].parameters
            = SurvivingSnapshots(last.pre, last.in.count, last.in.fromBack)

\* C24. After operator-= (of one function or of a list) on a delegate whose
\* entries were all added with Subscribe, only the snapshots of the callables
\* that stay are left, each with the index of the position its callable has
\* moved to, and Invoke() returns without calling a removed function.
Unsubscribed ==
    IF last.op = "MinusEq" THEN {last.in.rhs}
    ELSE {last.in.rhs[i] : i \in 1 .. Len(last.in.rhs)}

StaysBefore(d, gone, index) ==
    Cardinality({j \in 1 .. index : d.subscribers[j] \notin gone})

SnapshotsWithout(d, gone) ==
    LET kept == SelectSeq(d.parameters,
                    LAMBDA x : d.subscribers[x.index + 1] \notin gone)
    IN  [i \in 1 .. Len(kept) |->
            [kept[i] EXCEPT !.index = StaysBefore(d, gone, kept[i].index)]]

C24_UnsubscribeDropsSnapshots ==
    (/\ last.op \in {"MinusEq", "MinusEqList"}
     /\ last.preHist.built = "subscribe")
    => LET d == del[last.reg]
       IN  /\ st = "ok"
           /\ d.parameters = SnapshotsWithout(last.pre, Unsubscribed)
           /\ Invoke(d).st = "ok"
           /\ \A i \in 1 .. Len(Invoke(d).calls) :
                Invoke(d).calls[i].fn \notin Unsubscribed

\* C25. While two delegates are only called as NextPositional allows, every call
\* returns and each delegate has one snapshot per callable, the j-th snapshot
\* carrying the index of the j-th callable.
Positional(d) ==
    /\ Len(d.parameters) = Len(d.subscribers)
    /\ \A j \in 1 .. Len(d.parameters) : d.parameters[j].index = j - 1

C25_PositionalInvariant ==
    /\ st = "ok"
    /\ \A r \in Regs : Positional(del[r])

\* A delegate grown with ++ was shifted into another one that had entries, and
\* the result holds a callable that is not its first one.
C25_Witness ==
    /\ last.op \in {"ShiftLeft", "ShiftRight"}
    /\ last.pre.subscribers # <<>>
    /\ last.in.otherPre.subscribers # <<>>
    /\ \E r \in Regs : Len(del[r].subscribers) = MaxPositional
    /\ last.preHist.built = "other"
    /\ last.in.otherHist.built = "other"

\* C26. Combine returns for every argument, the delegate itself included: on a
\* delegate with callables and one snapshot per callable, a.Combine(a) returns
\* and leaves a with twice as many callables and twice as many snapshots.
C26_SelfCombine ==
    (/\ last.op = "Combine"
     /\ last.in.other = last.reg
     /\ last.pre.subscribers # <<>>
     /\ OneSnapshotPerCallable(last.pre))
    => /\ st = "ok"
       /\ Len(del[last.reg].subscribers) = 2 * Len(last.pre.subscribers)
       /\ Len(del[last.reg].parameters) = 2 * Len(last.pre.parameters)

\* C27. On a delegate with callables, Remove(count, fromBack) with count <= 0
\* returns and leaves subscribers and parameters as they were.
C27_NonPositiveCount ==
    (/\ last.op = "Remove"
     /\ last.in.count <= 0
     /\ last.pre.subscribers # <<>>)
    => /\ st = "ok"
       /\ del[last.reg] = last.pre

\* C28. With a empty and b built by Subscribe only, a << b followed by a >> b
\* leaves a empty and b with the callables and snapshots (arguments and indices)
\* it had before the two calls, so that b.Invoke() makes the same calls.
\* Stated in two parts: after such an a << b, the call a >> b gives that result;
\* and whenever a >> b is called with b empty and a as such an a << b leaves it,
\* a ends empty and b with what a held.
C28_RoundTrip ==
    /\ (/\ last.op = "ShiftLeft"
        /\ last.reg # last.in.other
        /\ last.pre = Empty
        /\ last.in.otherHist.built = "subscribe")
       => LET back == ShiftRight(del[last.reg], del[last.in.other], FALSE)
          IN  /\ st = "ok"
              /\ back.st = "ok"
              /\ back.reg = Empty
              /\ back.other = last.in.otherPre
              /\ Invoke(back.other) = Invoke(last.in.otherPre)
    /\ (/\ last.op = "ShiftRight"
        /\ last.reg # last.in.other
        /\ last.in.otherPre = Empty
        /\ Positional(last.pre))
       => /\ st = "ok"
          /\ del[last.reg] = Empty
          /\ del[last.in.other] = last.pre

\* a >> b has just handed back to the empty b two entries with different
\* functions and arguments, which a held one snapshot per callable.
C28_Witness ==
    /\ last.op = "ShiftRight"
    /\ last.reg = "a"
    /\ last.in.other = "b"
    /\ last.in.otherPre = Empty
    /\ Len(last.pre.subscribers) = 2
    /\ last.pre.subscribers[1] # last.pre.subscribers[2]
    /\ Len(last.pre.parameters) = 2
    /\ last.pre.parameters[1].parameters # last.pre.parameters[2].parameters
    /\ del["a"] = Empty
    /\ del["b"] = last.pre
    /\ Invoke(del["b"]).st = "ok"

\* C29. Invoke() and operator()(args), with or without a return value, leave
\* subscribers and parameters as they were: operator() always, Invoke() whenever
\* every snapshot it replays designates a callable.  Invoke() called again then
\* makes the same calls in the same order and returns the same value.
Invocations == {"Invoke", "RetInvoke", "CallAll", "RetCallAll"}

C29_InvocationReadsOnly ==
    last.op \in Invocations =>
        /\ last.op \in {"CallAll", "RetCallAll"} => st = "ok"
        /\ st = "ok" =>
            /\ del[last.reg] = last.pre
            /\ last.op = "Invoke" => Invoke(del[last.reg]) = last.out
            /\ last.op = "RetInvoke" => RetInvoke(del[last.reg]) = last.out
            /\ last.op = "CallAll" =>
                    CallAll(del[last.reg], last.in.params) = last.out
            /\ last.op = "RetCallAll" =>
                    RetCallAll(del[last.reg], last.in.params) = last.out

\* Invoke() has replayed two snapshots of a delegate that was cut down before.
C29_Witness ==
    /\ last.op = "Invoke"
    /\ st = "ok"
    /\ last.preHist.built = "other"
    /\ Len(last.out.calls) = 2
    /\ del[last.reg].parameters # <<>>

\* C30. Remove(const FunctionType&) removes the given function from subscribers,
\* and Remove(const vector<FunctionType>&) every subscribed function found in
\* the vector; the other callables stay, in order.
Listed ==
    IF last.op = "RemoveFunction" THEN {last.in.subscriber}
    ELSE {last.in.subscribers[i] : i \in 1 .. Len(last.in.subscribers)}

C30_RemoveListed ==
    last.op \in {"RemoveFunction", "RemoveFunctions"} =>
        /\ st = "ok"
        /\ del[last.reg].subscribers
                = SelectSeq(last.pre.subscribers, LAMBDA x : x \notin Listed)

====
